---- MODULE Spec2Model ----
(***************************************************************************)
(* Model of the chest-film pseudocolour pipeline of tb_color:              *)
(* modules/image_processor.py (MedicalImageProcessor), the control ranges  *)
(* of modules/ui_components.py, the processing tab of app.py and the       *)
(* history of modules/history_manager.py.                                  *)
(*                                                                         *)
(* An image buffer is a record [shape, px]: shape is <<h, w>> for a        *)
(* single-channel uint8 buffer and <<h, w, 3>> for a BGR buffer; px is the *)
(* row-major sequence of its h*w pixels (an intensity 0..255, or a         *)
(* <<b, g, r>> triple).  Floating-point results are kept as exact          *)
(* rationals [num, den].  The contrast gain is kept in tenths (the slider  *)
(* step is 0.1), so gain 2.0 is 20.                                        *)
(***************************************************************************)
EXTENDS Integers, Sequences, FiniteSets, TLC

VARIABLES
    COLOR_SCHEMES,   \* modules/config.py registry: scheme name -> sequence of bands
    image,           \* the caller's buffer, the argument of the pipeline operations
    clahe_cache,     \* MedicalImageProcessor._clahe_cache: cache key -> equalizer
    pc,              \* "idle", or the operation that has just returned
    args,            \* the other arguments of that call
    gray,            \* the local `gray` of that call (before the remap, in preprocess_image)
    ret,             \* the value the call returned
    prev,            \* the call before this one, as it returned (None if not recorded)
    callers,         \* the threads inside _get_clahe: position, arguments and locals
    uploaded_files,  \* the files in the uploader of app.py
    history,         \* st.session_state.history, newest entry first
    db,              \* the rows of the history table, in insertion order
    db_table,        \* whether init_db has created the history table
    db_enabled,      \* HistoryManager.db_enabled
    clock            \* the time datetime.now() reads

session == <<uploaded_files, history, db, db_table, db_enabled, clock>>

vars == <<COLOR_SCHEMES, image, clahe_cache, pc, args, gray, ret, prev, callers, session>>

None == [none |-> TRUE]

(***************************************************************************)
(* Bounds of the model.                                                    *)
(***************************************************************************)
\* an image has at most MaxPixels pixels (h * w <= MaxPixels)
MaxPixels == 3
\* the intensities of the multi-pixel gray images: the band edges and the extremes
PixelVals == {0, 100, 150, 255}
\* the BGR pixels of the colour images
BGRVals == {<<255, 0, 0>>, <<10, 200, 100>>}
\* the intensities an adaptive equalization may give back
ClaheVals == {0, 250}

(***************************************************************************)
(* Colours and the scheme registry (modules/config.py, not in the source   *)
(* tree: modelled from the specification's data model and scenarios).      *)
(***************************************************************************)
BLACK == <<0, 0, 0>>
RED   == <<0, 0, 255>>
GREEN == <<0, 255, 0>>
BLUE  == <<255, 0, 0>>
GOLD  == <<0, 215, 255>>

\* the names the sidebar offers and the registry holds, "标准", "高对比度"
\* and "柔和", in Latin letters
SchemeNames == {"biaozhun", "gaoduibidu", "rouhe"}
DefaultScheme == "biaozhun"
\* a name the registry does not hold
UnknownScheme == "nonexistent_scheme"

\* band lists <<lo, hi, colour>>: disjoint and exhaustive; overlapping (wide
\* band first, and wide band last); with gaps; a single band
SchemeChoices ==
    { << <<0, 100, RED>>, <<100, 200, GREEN>>, <<200, 256, BLUE>> >>,
      << <<0, 256, RED>>, <<100, 150, BLUE>> >>,
      << <<100, 150, BLUE>>, <<0, 256, GOLD>> >>,
      << <<100, 150, GREEN>>, <<200, 256, GOLD>> >>,
      << <<0, 150, GOLD>>, <<150, 256, BLUE>> >> }

AllRegistries == [SchemeNames -> SchemeChoices]

\* the registry whose default is the scheme of the end-to-end scenario
ScenarioRegistry ==
    [biaozhun      |-> << <<0, 100, RED>>, <<100, 200, GREEN>>, <<200, 256, BLUE>> >>,
     gaoduibidu    |-> << <<0, 150, GOLD>>, <<150, 256, BLUE>> >>,
     rouhe         |-> << <<100, 150, GREEN>>, <<200, 256, GOLD>> >>]

\* the registries of the image pipeline's specification: in each the default
\* scheme differs from the other two
Registries ==
    { ScenarioRegistry,
      [biaozhun      |-> << <<0, 256, RED>>, <<100, 150, BLUE>> >>,
       gaoduibidu    |-> << <<100, 150, BLUE>>, <<0, 256, GOLD>> >>,
       rouhe         |-> << <<0, 150, GOLD>>, <<150, 256, BLUE>> >>],
      [biaozhun      |-> << <<100, 150, GREEN>>, <<200, 256, GOLD>> >>,
       gaoduibidu    |-> << <<0, 256, RED>>, <<100, 150, BLUE>> >>,
       rouhe         |-> << <<0, 100, RED>>, <<100, 200, GREEN>>, <<200, 256, BLUE>> >>] }

(***************************************************************************)
(* Image buffers.                                                          *)
(***************************************************************************)
Shapes == {s \in (1..MaxPixels) \X (1..MaxPixels) : s[1] * s[2] <= MaxPixels}

GrayImages ==
    UNION { { [shape |-> s, px |-> p] : p \in [1..(s[1] * s[2]) -> PixelVals] } : s \in Shapes }

ColorImages ==
    UNION { { [shape |-> <<s[1], s[2], 3>>, px |-> p] : p \in [1..(s[1] * s[2]) -> BGRVals] }
            : s \in Shapes }

Images == GrayImages \cup ColorImages

\* cv2.cvtColor(image, cv2.COLOR_BGR2GRAY) on one 8-bit pixel: fixed-point luma
BGR2GRAY(c) == (c[1] * 3735 + c[2] * 19235 + c[3] * 9798 + 16384) \div 32768

\* _to_gray: a 3-dimensional buffer is reduced to luma, a uint8 2-dimensional
\* buffer is returned as it is
ToGray(img) ==
    IF Len(img.shape) = 3
    THEN [shape |-> <<img.shape[1], img.shape[2]>>,
          px    |-> [k \in DOMAIN img.px |-> BGR2GRAY(img.px[k])]]
    ELSE img

(***************************************************************************)
(* enhance_pseudocolor                                                     *)
(***************************************************************************)
\* a lookup without the fallback: an unknown name gives no band at all
LayersNoFallback(registry, color_scheme) ==
    IF color_scheme \in DOMAIN registry THEN registry[color_scheme] ELSE <<>>

\* COLOR_SCHEMES.get(color_scheme, COLOR_SCHEMES["标准"])
Layers(registry, color_scheme) ==
    IF color_scheme \in DOMAIN registry THEN registry[color_scheme]
    ELSE registry[DefaultScheme]

\* a mask whose upper bound is inclusive
MaskInclusive(g, layer) == {k \in DOMAIN g.px : g.px[k] >= layer[1] /\ g.px[k] <= layer[2]}

\* a mask whose lower bound is exclusive
MaskLowerExclusive(g, layer) == {k \in DOMAIN g.px : g.px[k] > layer[1] /\ g.px[k] < layer[2]}

\* mask = (gray >= min_val) & (gray < max_val)
Mask(g, layer) == {k \in DOMAIN g.px : g.px[k] >= layer[1] /\ g.px[k] < layer[2]}

\* the body of the loop: color_img[mask] = color
PaintLayer(color_px, g, layer) ==
    [k \in DOMAIN color_px |-> IF k \in Mask(g, layer) THEN layer[3] ELSE color_px[k]]

\* the loop run from the last band to the first: the first band wins
RECURSIVE PaintLayersReversed(_, _, _, _)
PaintLayersReversed(color_px, g, layers, i) ==
    IF i > Len(layers) THEN color_px
    ELSE PaintLayer(PaintLayersReversed(color_px, g, layers, i + 1), g, layers[i])

\* for min_val, max_val, color in layers: ..., from layer i on
RECURSIVE PaintLayers(_, _, _, _)
PaintLayers(color_px, g, layers, i) ==
    IF i > Len(layers) THEN color_px
    ELSE PaintLayers(PaintLayer(color_px, g, layers[i]), g, layers, i + 1)

\* np.zeros((gray.shape[0], gray.shape[1], 3), dtype=np.uint8)
Zeros3(h, w) == [shape |-> <<h, w, 3>>, px |-> [k \in 1..(h * w) |-> BLACK]]

EnhancePseudocolor(registry, img, color_scheme) ==
    LET g == ToGray(img)
        color_img == Zeros3(g.shape[1], g.shape[2])
    IN  [shape |-> color_img.shape,
         px    |-> PaintLayers(color_img.px, g, Layers(registry, color_scheme), 1)]

(***************************************************************************)
(* calculate_image_stats                                                   *)
(***************************************************************************)
Rat(n, d) == [num |-> n, den |-> d]
\* a <= b for rationals with positive denominators
RatLeq(a, b) == a.num * b.den <= b.num * a.den
RatEq(a, b) == a.num * b.den = b.num * a.den

RECURSIVE SumFrom(_, _)
SumFrom(xs, k) == IF k > Len(xs) THEN 0 ELSE xs[k] + SumFrom(xs, k + 1)

RECURSIVE SumSqFrom(_, _)
SumSqFrom(xs, k) == IF k > Len(xs) THEN 0 ELSE xs[k] * xs[k] + SumSqFrom(xs, k + 1)

\* np.min / np.max over all pixels
NpMin(xs) == CHOOSE m \in {xs[k] : k \in DOMAIN xs} : \A k \in DOMAIN xs : m <= xs[k]
NpMax(xs) == CHOOSE m \in {xs[k] : k \in DOMAIN xs} : \A k \in DOMAIN xs : m >= xs[k]

\* a mean whose sum is accumulated in the buffer's own 8 bits
NpMeanUint8(xs) == Rat(SumFrom(xs, 1) % 256, Len(xs))

\* np.mean of a uint8 buffer: the sum is accumulated in float64, then divided
NpMean(xs) == Rat(SumFrom(xs, 1), Len(xs))

\* the sample variance (n - 1 in the denominator; the count itself for one pixel)
NpVarSample(xs) ==
    LET n == Len(xs) s == SumFrom(xs, 1)
    IN  Rat(n * SumSqFrom(xs, 1) - s * s, n * (IF n > 1 THEN n - 1 ELSE 1))

\* np.std squared: mean(|x - mean|^2) = (n * sum(x^2) - sum(x)^2) / n^2
NpVar(xs) ==
    LET n == Len(xs) s == SumFrom(xs, 1)
    IN  Rat(n * SumSqFrom(xs, 1) - s * s, n * n)

\* a median that takes the lower middle pixel of an even count
NpMedianLower(xs) ==
    LET sorted == SortSeq(xs, LAMBDA a, b : a < b)
    IN  Rat(sorted[(Len(xs) + 1) \div 2], 1)

\* np.median: the middle of the sorted pixels, and for an even count the mean
\* of the two middle ones
NpMedian(xs) ==
    LET sorted == SortSeq(xs, LAMBDA a, b : a < b)
        n == Len(xs)
    IN  IF n % 2 = 1 THEN Rat(sorted[(n + 1) \div 2], 1)
        ELSE Rat(sorted[n \div 2] + sorted[n \div 2 + 1], 2)

\* the stats dictionary; "std" is held as its square, std_sq
CalculateImageStats(img) ==
    LET g == ToGray(img)
    IN  [min    |-> NpMin(g.px),
         max    |-> NpMax(g.px),
         mean   |-> NpMean(g.px),
         std_sq |-> NpVar(g.px),
         width  |-> g.shape[2],
         height |-> g.shape[1],
         median |-> NpMedian(g.px)]

(***************************************************************************)
(* compute_histogram                                                       *)
(***************************************************************************)
RECURSIVE CountFrom(_, _, _)
CountFrom(xs, k, counts) ==
    IF k > Len(xs) THEN counts
    ELSE CountFrom(xs, k + 1, [counts EXCEPT ![xs[k]] = @ + 1])

\* a bincount without minlength: the bins end at the largest value
BincountNoMinlength(xs, minlength) ==
    CountFrom(xs, 1, [i \in 0..(IF xs = <<>> THEN -1 ELSE NpMax(xs)) |-> 0])

\* np.bincount(x, minlength): one bin per value 0..max(x), at least minlength
\* bins, each pixel adding one to the bin of its value
Bincount(xs, minlength) ==
    LET top == IF xs = <<>> THEN 0 ELSE NpMax(xs) + 1
        n   == IF top > minlength THEN top ELSE minlength
    IN  CountFrom(xs, 1, [i \in 0..(n - 1) |-> 0])

\* a histogram over the range [0, 255): the brightest pixels are not counted
ComputeHistogramBelow255(img) ==
    CountFrom(SelectSeq(ToGray(img).px, LAMBDA v : v < 255), 1, [i \in 0..255 |-> 0])

ComputeHistogram(img) == Bincount(ToGray(img).px, 256)

(***************************************************************************)
(* preprocess_image                                                        *)
(***************************************************************************)
\* the sidebar sliders: contrast 0.5..2.0 in steps of 0.1 (in tenths),
\* brightness -50..50 in steps of 5
Gains == 5..20
Brights == {5 * i - 50 : i \in 0..20}
\* the controls the pipeline's specification draws from
SomeGains == {7, 10, 20}
SomeBrights == {-50, 0, 50}

\* clip_limit=2.0, tile_grid_size=(8, 8), the clip limit in tenths
ClaheKey == <<20, <<8, 8>>>>

\* a cache key made of the tile grid alone
CacheKeyGridOnly(clip_limit, tile_grid_size) == <<0, tile_grid_size>>

\* cache_key = (clip_limit, tile_grid_size)
CacheKey(clip_limit, tile_grid_size) == <<clip_limit, tile_grid_size>>

\* cv2.createCLAHE(clipLimit, tileGridSize); `by` tells the objects of
\* different constructions apart (0: the sequential caller)
CreateCLAHE(clip_limit, tile_grid_size, by) ==
    [clipLimit |-> clip_limit, tileGridSize |-> tile_grid_size, by |-> by]

\* _clahe_cache = {}
EmptyCache == [k \in {} |-> None]

\* _get_clahe run by one caller alone: the cache after the call, holding an
\* equalizer under the key, constructed on a miss
GetClahe(cache, key) ==
    LET cache_key == CacheKey(key[1], key[2])
    IN  IF cache_key \in DOMAIN cache THEN cache
        ELSE [k \in DOMAIN cache \cup {cache_key} |->
                IF k = cache_key THEN CreateCLAHE(key[1], key[2], 0) ELSE cache[k]]

\* clahe.apply(gray): a buffer of the same shape; the equalized intensities
\* are the library's, any of ClaheVals here
ClaheOutputs(g) == { [shape |-> g.shape, px |-> p] : p \in [DOMAIN g.px -> ClaheVals] }

Abs(x) == IF x < 0 THEN -x ELSE x

\* |v * alpha + beta| in tenths
ScaledAbs(v, contrast, brightness) == Abs(v * contrast + 10 * brightness)

\* a gain that is a multiple of 0.5 is exact in binary floating point
ExactGain(contrast) == contrast % 5 = 0

\* the intensities of g whose scaled value lies exactly between two integers
\* while the gain is inexact: the float product may fall on either side
Ties(g, contrast, brightness) ==
    { g.px[k] : k \in { j \in DOMAIN g.px :
                          /\ ScaledAbs(g.px[j], contrast, brightness) % 10 = 5
                          /\ ~ExactGain(contrast) } }

\* a remap that keeps the low 8 bits instead of saturating
ConvertScaleWrap(v, contrast, brightness, up) ==
    LET a == ScaledAbs(v, contrast, brightness)
    IN  ((a + 5) \div 10) % 256

\* cv2.convertScaleAbs on one pixel: saturate_cast<uchar>(cvRound(|v*alpha + beta|)),
\* cvRound rounding halves to even; up tells where an inexact tie falls
ConvertScaleAbs(v, contrast, brightness, up) ==
    LET a == ScaledAbs(v, contrast, brightness)
        q == a \div 10
        r == a % 10
        rounded == IF r < 5 THEN q
                   ELSE IF r > 5 THEN q + 1
                   ELSE IF ExactGain(contrast) THEN (IF q % 2 = 0 THEN q ELSE q + 1)
                   ELSE IF up THEN q + 1 ELSE q
    IN  IF rounded > 255 THEN 255 ELSE rounded

\* gray = cv2.convertScaleAbs(gray, alpha=contrast, beta=brightness)
Remap(g, contrast, brightness, ups) ==
    [shape |-> g.shape,
     px    |-> [k \in DOMAIN g.px |->
                  ConvertScaleAbs(g.px[k], contrast, brightness, g.px[k] \in ups)]]

(***************************************************************************)
(* generate_legend                                                         *)
(***************************************************************************)
LegendRows == 40
LegendCols == 256

\* a slice bound of Python on an axis of length n
SliceBound(i, n) == IF i < 0 THEN (IF i + n < 0 THEN 0 ELSE i + n) ELSE IF i > n THEN n ELSE i

\* a fill that takes the band's upper bound in
FillColumnsInclusive(rows, layer) ==
    [r \in DOMAIN rows |->
       [c \in DOMAIN rows[r] |->
          IF /\ c - 1 >= SliceBound(layer[1], Len(rows[r]))
             /\ c - 1 <= SliceBound(layer[2], Len(rows[r]))
          THEN layer[3] ELSE rows[r][c]]]

\* legend[:, min_val:max_val] = color, on a legend of any width
FillColumns(rows, layer) ==
    [r \in DOMAIN rows |->
       [c \in DOMAIN rows[r] |->
          IF /\ c - 1 >= SliceBound(layer[1], Len(rows[r]))
             /\ c - 1 < SliceBound(layer[2], Len(rows[r]))
          THEN layer[3] ELSE rows[r][c]]]

RECURSIVE FillLayers(_, _, _)
FillLayers(rows, layers, i) ==
    IF i > Len(layers) THEN rows
    ELSE FillLayers(FillColumns(rows, layers[i]), layers, i + 1)

\* a legend only as wide as the last band's upper bound
GenerateLegendFitted(registry, color_scheme) ==
    LET layers == Layers(registry, color_scheme)
        cols == IF layers[Len(layers)][2] > LegendCols THEN LegendCols
                ELSE layers[Len(layers)][2]
        legend == [r \in 1..LegendRows |-> [c \in 1..cols |-> BLACK]]
    IN  [shape |-> <<LegendRows, cols, 3>>, rows |-> FillLayers(legend, layers, 1)]

\* the legend: rows[r][c + 1] is the pixel of row r - 1 and column c
GenerateLegend(registry, color_scheme) ==
    LET legend == [r \in 1..LegendRows |-> [c \in 1..LegendCols |-> BLACK]]
    IN  [shape |-> <<LegendRows, LegendCols, 3>>,
         rows  |-> FillLayers(legend, Layers(registry, color_scheme), 1)]

(***************************************************************************)
(* convert_to_pil                                                          *)
(***************************************************************************)
\* cv2.cvtColor(image, cv2.COLOR_BGR2RGB) for a 3-dimensional buffer, else
\* cv2.COLOR_GRAY2RGB; Image.fromarray gives an RGB image of size (w, h)
ConvertToPil(img) ==
    [mode |-> "RGB",
     size |-> <<img.shape[2], img.shape[1]>>,
     px   |-> [k \in DOMAIN img.px |->
                 IF Len(img.shape) = 3
                 THEN <<img.px[k][3], img.px[k][2], img.px[k][1]>>
                 ELSE <<img.px[k], img.px[k], img.px[k]>>]]

(***************************************************************************)
(* st.image on a numpy buffer (channels="RGB", the default)                *)
(***************************************************************************)
\* the picture on screen: the three values of a pixel are taken as red,
\* green, blue in the order they are stored; a single-channel buffer is gray
StImage(img) ==
    [mode |-> "RGB",
     size |-> <<img.shape[2], img.shape[1]>>,
     px   |-> [k \in DOMAIN img.px |->
                 IF Len(img.shape) = 3
                 THEN <<img.px[k][1], img.px[k][2], img.px[k][3]>>
                 ELSE <<img.px[k], img.px[k], img.px[k]>>]]

(***************************************************************************)
(* app.py: the pipeline run on one decoded image under the controls.       *)
(***************************************************************************)
\* the sidebar's controls that reach the pipeline
Controls(names, flags, gains, brights) ==
    [color_scheme : names, apply_clahe : flags, contrast : gains, brightness : brights]

\* the buffers preprocess_image may return for img under the controls
PreprocessImage(img, ctl) ==
    UNION { { Remap(g, ctl.contrast, ctl.brightness, ups) :
                ups \in SUBSET Ties(g, ctl.contrast, ctl.brightness) } :
            g \in IF ctl.apply_clahe THEN ClaheOutputs(ToGray(img)) ELSE {ToGray(img)} }

\* statistics taken of the preprocessed buffer
StatsInputPreprocessed(img, preprocessed_img) == preprocessed_img

\* stats = processor.calculate_image_stats(img)
StatsInput(img, preprocessed_img) == img

\* counts = processor.compute_histogram(preprocessed_img)
HistogramInput(img, preprocessed_img) == preprocessed_img

\* process_single_image on a decoded image: the results it may return, each
\* with the preprocessed buffer it came from
ProcessSingleImage(registry, img, ctl) ==
    { [preprocessed_img |-> p,
       result |-> [original_image |-> img,
                   enhanced_image |-> EnhancePseudocolor(registry, p, ctl.color_scheme),
                   stats          |-> CalculateImageStats(StatsInput(img, p))]] :
      p \in PreprocessImage(img, ctl) }

\* the single-file mode of main on a decoded image: what it stores in the
\* session, shows beside the original, and hands to the histogram chart and
\* the download button
SingleFile(registry, img, ctl) ==
    { [preprocessed_img |-> p,
       result |-> LET enhanced_img == EnhancePseudocolor(registry, p, ctl.color_scheme)
                  IN  [current_image  |-> img,
                       enhanced_image |-> enhanced_img,
                       image_stats    |-> CalculateImageStats(StatsInput(img, p)),
                       shown_img      |-> StImage(enhanced_img),
                       counts         |-> ComputeHistogram(HistogramInput(img, p)),
                       pil_img        |-> ConvertToPil(enhanced_img)]] :
      p \in PreprocessImage(img, ctl) }

(***************************************************************************)
(* The operations as calls on the caller's buffer.                         *)
(***************************************************************************)
\* no thread is inside _get_clahe
NoCallers == callers = <<>>

\* init_session_state, with nothing uploaded and the database off
NoSession ==
    /\ uploaded_files = <<>>
    /\ history = <<>>
    /\ db = <<>>
    /\ db_table = FALSE
    /\ db_enabled = FALSE
    /\ clock = 0

\* a remap written in place into the buffer _to_gray handed back
CallerBufferInPlace(img, out) ==
    IF Len(img.shape) = 2 /\ out.shape = img.shape THEN out ELSE img

\* the caller's buffer after a call that ended with the buffer `out`:
\* _to_gray hands a uint8 single-channel buffer back as it is, and every
\* later step (clahe.apply, cv2.convertScaleAbs, cv2.cvtColor, np.zeros and
\* the masked stores into color_img) writes to a buffer of its own
CallerBuffer(img, out) == img

\* the name whose bands a lookup returns
Resolved(registry, color_scheme) ==
    IF color_scheme \in DOMAIN registry THEN color_scheme ELSE DefaultScheme

\* a loop that takes the bands out of the registered list as it paints them
RegistryConsumed(registry, color_scheme) ==
    [registry EXCEPT ![Resolved(registry, color_scheme)] = <<>>]

\* the registry after the loop over `layers`, which only reads the list
RegistryAfter(registry, color_scheme) == registry

TypeOK ==
    /\ pc \in {"idle", "preprocess_image", "enhance_pseudocolor", "calculate_image_stats",
              "compute_histogram", "generate_legend", "process_single_image",
              "single_file", "convert_to_pil", "batch", "save_to_history",
              "clear_history", "init_db", "load_from_db", "query", "clear_history_db"}
    /\ DOMAIN clahe_cache \subseteq {CacheKey(20, <<8, 8>>)}

Init ==
    /\ COLOR_SCHEMES \in Registries
    /\ image \in Images
    /\ clahe_cache = EmptyCache
    /\ prev = None
    /\ NoCallers
    /\ NoSession
    /\ pc = "idle"
    /\ args = None
    /\ gray = None
    /\ ret = None

CallEnhancePseudocolor ==
    /\ pc = "idle"
    /\ \E color_scheme \in SchemeNames \cup {UnknownScheme} :
          /\ args' = [color_scheme |-> color_scheme]
          /\ gray' = ToGray(image)
          /\ ret' = EnhancePseudocolor(COLOR_SCHEMES, image, color_scheme)
          /\ COLOR_SCHEMES' = RegistryAfter(COLOR_SCHEMES, color_scheme)
    /\ image' = CallerBuffer(image, gray')
    /\ pc' = "enhance_pseudocolor"
    /\ UNCHANGED <<clahe_cache, prev, callers, session>>

\* the caller takes the result and the next call starts afresh; with
\* `recorded` the finished call is kept in prev
Return(recorded) ==
    /\ pc # "idle"
    /\ pc' = "idle"
    /\ args' = None
    /\ gray' = None
    /\ ret' = None
    /\ prev' = IF recorded
               THEN [op |-> pc, args |-> args, ret |-> ret]
               ELSE prev
    /\ UNCHANGED <<COLOR_SCHEMES, image, clahe_cache, callers, session>>

CallCalculateImageStats ==
    /\ pc = "idle"
    /\ args' = None
    /\ gray' = ToGray(image)
    /\ ret' = CalculateImageStats(image)
    /\ image' = CallerBuffer(image, gray')
    /\ pc' = "calculate_image_stats"
    /\ UNCHANGED <<COLOR_SCHEMES, clahe_cache, prev, callers, session>>

CallComputeHistogram ==
    /\ pc = "idle"
    /\ args' = None
    /\ gray' = ToGray(image)
    /\ ret' = ComputeHistogram(image)
    /\ image' = CallerBuffer(image, gray')
    /\ pc' = "compute_histogram"
    /\ UNCHANGED <<COLOR_SCHEMES, clahe_cache, prev, callers, session>>

\* preprocess_image with the controls drawn from the given sets
CallPreprocessImage(flags, gains, brights) ==
    /\ pc = "idle"
    /\ \E apply_clahe \in flags, contrast \in gains, brightness \in brights :
          /\ args' = [apply_clahe |-> apply_clahe, contrast |-> contrast,
                      brightness |-> brightness]
          /\ clahe_cache' = IF apply_clahe THEN GetClahe(clahe_cache, ClaheKey)
                            ELSE clahe_cache
          /\ gray' \in IF apply_clahe THEN ClaheOutputs(ToGray(image)) ELSE {ToGray(image)}
          /\ \E ups \in SUBSET Ties(gray', contrast, brightness) :
                ret' = Remap(gray', contrast, brightness, ups)
    /\ image' = CallerBuffer(image, ret')
    /\ pc' = "preprocess_image"
    /\ UNCHANGED <<COLOR_SCHEMES, prev, callers, session>>

CallGenerateLegend ==
    /\ pc = "idle"
    /\ \E color_scheme \in SchemeNames \cup {UnknownScheme} :
          /\ args' = [color_scheme |-> color_scheme]
          /\ ret' = GenerateLegend(COLOR_SCHEMES, color_scheme)
    /\ gray' = None
    /\ pc' = "generate_legend"
    /\ UNCHANGED <<COLOR_SCHEMES, image, clahe_cache, prev, callers, session>>

CallConvertToPil ==
    /\ pc = "idle"
    /\ args' = None
    /\ gray' = None
    /\ ret' = ConvertToPil(image)
    /\ image' = CallerBuffer(image, image)
    /\ pc' = "convert_to_pil"
    /\ UNCHANGED <<COLOR_SCHEMES, clahe_cache, prev, callers, session>>

(***************************************************************************)
(* The image pipeline: every operation on every small buffer.              *)
(***************************************************************************)
Next ==
    \/ CallPreprocessImage(BOOLEAN, SomeGains, SomeBrights)
    \/ CallEnhancePseudocolor
    \/ CallCalculateImageStats
    \/ CallComputeHistogram
    \/ Return(FALSE)

Spec == Init /\ [][Next]_vars

(***************************************************************************)
(* The remap alone: every intensity under every setting of the sliders.    *)
(***************************************************************************)
InitRemap ==
    /\ COLOR_SCHEMES = ScenarioRegistry
    /\ image \in { [shape |-> <<1, 1>>, px |-> <<v>>] : v \in 0..255 }
    /\ clahe_cache = EmptyCache
    /\ prev = None
    /\ NoCallers
    /\ NoSession
    /\ pc = "idle"
    /\ args = None
    /\ gray = None
    /\ ret = None

NextRemap ==
    \/ CallPreprocessImage({FALSE}, Gains, Brights)
    \/ Return(FALSE)

SpecRemap == InitRemap /\ [][NextRemap]_vars

(***************************************************************************)
(* The legend alone: every registry over the scheme choices.               *)
(***************************************************************************)
InitLegend ==
    /\ COLOR_SCHEMES \in AllRegistries
    /\ image = [shape |-> <<1, 1>>, px |-> <<0>>]
    /\ clahe_cache = EmptyCache
    /\ prev = None
    /\ NoCallers
    /\ NoSession
    /\ pc = "idle"
    /\ args = None
    /\ gray = None
    /\ ret = None

NextLegend ==
    \/ CallGenerateLegend
    \/ Return(FALSE)

SpecLegend == InitLegend /\ [][NextLegend]_vars

(***************************************************************************)
(* The application's pipeline: one decoded image through app.py.           *)
(***************************************************************************)
\* the 2x2 image of the end-to-end scenario
ScenarioImage == [shape |-> <<2, 2>>, px |-> <<0, 100, 150, 255>>]

PipelineControls == Controls({DefaultScheme, "rouhe"}, BOOLEAN, {10, 20}, {-50, 0})

\* gray holds the preprocessed buffer handed on to enhance_pseudocolor
CallProcessSingleImage ==
    /\ pc = "idle"
    /\ \E ctl \in PipelineControls :
          /\ args' = ctl
          /\ clahe_cache' = IF ctl.apply_clahe THEN GetClahe(clahe_cache, ClaheKey)
                            ELSE clahe_cache
          /\ \E run \in ProcessSingleImage(COLOR_SCHEMES, image, ctl) :
                /\ gray' = run.preprocessed_img
                /\ ret' = run.result
          /\ COLOR_SCHEMES' = RegistryAfter(COLOR_SCHEMES, ctl.color_scheme)
    /\ image' = CallerBuffer(image, gray')
    /\ pc' = "process_single_image"
    /\ UNCHANGED <<prev, callers, session>>

CallSingleFile ==
    /\ pc = "idle"
    /\ \E ctl \in PipelineControls :
          /\ args' = ctl
          /\ clahe_cache' = IF ctl.apply_clahe THEN GetClahe(clahe_cache, ClaheKey)
                            ELSE clahe_cache
          /\ \E run \in SingleFile(COLOR_SCHEMES, image, ctl) :
                /\ gray' = run.preprocessed_img
                /\ ret' = run.result
          /\ COLOR_SCHEMES' = RegistryAfter(COLOR_SCHEMES, ctl.color_scheme)
    /\ image' = CallerBuffer(image, gray')
    /\ pc' = "single_file"
    /\ UNCHANGED <<prev, callers, session>>

InitPipeline ==
    /\ COLOR_SCHEMES = ScenarioRegistry
    /\ image \in Images \cup {ScenarioImage}
    /\ clahe_cache = EmptyCache
    /\ prev = None
    /\ NoCallers
    /\ NoSession
    /\ pc = "idle"
    /\ args = None
    /\ gray = None
    /\ ret = None

NextPipeline ==
    \/ CallProcessSingleImage
    \/ CallSingleFile
    \/ CallCalculateImageStats
    \/ Return(FALSE)

SpecPipeline == InitPipeline /\ [][NextPipeline]_vars

(***************************************************************************)
(* preprocess_image on buffers it cannot process.                          *)
(***************************************************************************)
\* the buffer has no pixel: a dimension of its shape is zero
Empty(img) == img.shape[1] * img.shape[2] = 0

\* the exceptions the body of preprocess_image may raise on img ("none": it
\* may also run through).  cv2.cvtColor(..., COLOR_BGR2GRAY) rejects an empty
\* source and a source of other than 3 or 4 channels with cv2.error; what
\* clahe.apply and cv2.convertScaleAbs make of an empty single-channel buffer
\* (an error, or an empty result whose .shape the logging line then reads)
\* is the library's and is left open
PreprocessRaises(img, ctl) ==
    IF Len(img.shape) = 3
    THEN IF Empty(img) \/ img.shape[3] \notin {3, 4} THEN {"cv2.error"} ELSE {"none"}
    ELSE IF Empty(img) THEN {"cv2.error", "AttributeError", "none"}
    ELSE {"none"}

\* except cv2.error as e: ...; raise / except Exception as e: ...; raise
Reraise(e) == e

\* what a call of preprocess_image ends with: a buffer, or an exception
PreprocessOutcomes(img, ctl) ==
    LET raises == PreprocessRaises(img, ctl)
    IN  { [raised |-> Reraise(e)] : e \in raises \ {"none"} }
        \cup (IF "none" \notin raises THEN {}
              ELSE IF Empty(img) THEN {img}
              ELSE PreprocessImage(img, ctl))

\* buffers outside the pipeline's domain, beside some inside it
ErrorImages ==
    { [shape |-> sh, px |-> <<>>] : sh \in {<<0, 0>>, <<0, 2>>, <<2, 0>>, <<0, 0, 3>>} }
    \cup { [shape |-> <<1, 1, Len(c)>>, px |-> <<c>>] :
             c \in {<<7>>, <<7, 255>>, <<10, 200, 100>>, <<10, 200, 100, 255>>,
                    <<1, 2, 3, 4, 5>>} }
    \cup { [shape |-> <<1, 2, 2>>, px |-> <<c, c>>] : c \in {<<0, 255>>, <<100, 0>>} }
    \cup { [shape |-> <<1, 1>>, px |-> <<v>>] : v \in PixelVals }

CallPreprocessImageOnAny ==
    /\ pc = "idle"
    /\ \E ctl \in Controls({DefaultScheme}, BOOLEAN, SomeGains, SomeBrights) :
          /\ args' = ctl
          /\ clahe_cache' = IF ctl.apply_clahe /\ Len(image.shape) = 2
                            THEN GetClahe(clahe_cache, ClaheKey)
                            ELSE clahe_cache
          /\ ret' \in PreprocessOutcomes(image, ctl)
    /\ gray' = None
    /\ image' = CallerBuffer(image, image)
    /\ pc' = "preprocess_image"
    /\ UNCHANGED <<COLOR_SCHEMES, prev, callers, session>>

InitErrors ==
    /\ COLOR_SCHEMES = ScenarioRegistry
    /\ image \in ErrorImages
    /\ clahe_cache = EmptyCache
    /\ pc = "idle"
    /\ args = None
    /\ gray = None
    /\ ret = None
    /\ prev = None
    /\ NoCallers
    /\ NoSession

NextErrors ==
    \/ CallPreprocessImageOnAny
    \/ Return(FALSE)

SpecErrors == InitErrors /\ [][NextErrors]_vars

(***************************************************************************)
(* _get_clahe entered by several threads at once.  The statements of the   *)
(* method are the steps: the membership test, the construction, the store  *)
(* into the dictionary, and the lookup of the return statement.            *)
(***************************************************************************)
\* the number of threads
NCallers == 2
\* the clip limits they ask for, in tenths
RaceClips == {20, 30}

CallerKey(t) == CacheKey(callers[t].clip_limit, callers[t].tile_grid_size)

\* if cache_key not in MedicalImageProcessor._clahe_cache:
CheckCache(t) ==
    /\ callers[t].pc = "check"
    /\ callers' = [callers EXCEPT ![t].pc =
                      IF CallerKey(t) \in DOMAIN clahe_cache THEN "return" ELSE "create"]
    /\ UNCHANGED <<COLOR_SCHEMES, image, clahe_cache, pc, args, gray, ret, prev, session>>

\* cv2.createCLAHE(clipLimit=clip_limit, tileGridSize=tile_grid_size)
Construct(t) ==
    /\ callers[t].pc = "create"
    /\ callers' = [callers EXCEPT
                      ![t].clahe = CreateCLAHE(callers[t].clip_limit,
                                               callers[t].tile_grid_size, t),
                      ![t].pc = "store"]
    /\ UNCHANGED <<COLOR_SCHEMES, image, clahe_cache, pc, args, gray, ret, prev, session>>

\* MedicalImageProcessor._clahe_cache[cache_key] = <the new equalizer>
Store(t) ==
    /\ callers[t].pc = "store"
    /\ clahe_cache' = [k \in DOMAIN clahe_cache \cup {CallerKey(t)} |->
                          IF k = CallerKey(t) THEN callers[t].clahe ELSE clahe_cache[k]]
    /\ callers' = [callers EXCEPT ![t].pc = "return"]
    /\ UNCHANGED <<COLOR_SCHEMES, image, pc, args, gray, ret, prev, session>>

\* return MedicalImageProcessor._clahe_cache[cache_key]
Fetch(t) ==
    /\ callers[t].pc = "return"
    /\ callers' = [callers EXCEPT ![t].got = clahe_cache[CallerKey(t)],
                                  ![t].pc = "done"]
    /\ UNCHANGED <<COLOR_SCHEMES, image, clahe_cache, pc, args, gray, ret, prev, session>>

InitRace ==
    /\ COLOR_SCHEMES = ScenarioRegistry
    /\ image = [shape |-> <<1, 1>>, px |-> <<0>>]
    /\ clahe_cache = EmptyCache
    /\ pc = "idle"
    /\ args = None
    /\ gray = None
    /\ ret = None
    /\ prev = None
    /\ callers \in [1..NCallers ->
                       { [pc |-> "check", clip_limit |-> c, tile_grid_size |-> <<8, 8>>,
                          clahe |-> None, got |-> None] : c \in RaceClips }]
    /\ NoSession

NextRace ==
    \/ \E t \in DOMAIN callers : CheckCache(t)
    \/ \E t \in DOMAIN callers : Construct(t)
    \/ \E t \in DOMAIN callers : Store(t)
    \/ \E t \in DOMAIN callers : Fetch(t)

SpecRace == InitRace /\ [][NextRace]_vars

(***************************************************************************)
(* app.py and modules/history_manager.py: the buttons of the processing    *)
(* tab and the history they write.  An uploaded file is [name, img], img   *)
(* being what cv2.imdecode makes of its bytes (None: not decodable).  A    *)
(* click runs the script once; clicks are a second or more apart, so each  *)
(* run reads one time of its own from the clock.                           *)
(***************************************************************************)
\* at most MaxFiles files are in the uploader
MaxFiles == 2
\* at most MaxClock clicks are made
MaxClock == 3

\* APP_CONFIG["max_history_entries"] (modules/config.py), the max_entries of
\* the HistoryManager
max_entries == 2

Files ==
    { [name |-> "a.png", img |-> [shape |-> <<1, 2>>, px |-> <<0, 255>>]],
      [name |-> "b.png", img |-> [shape |-> <<1, 1, 3>>, px |-> << <<10, 200, 100>> >>]],
      [name |-> "bad.png", img |-> None] }

\* the uploads: up to MaxFiles files, no file twice
Uploads ==
    { fs \in UNION { [1..n -> Files] : n \in 1..MaxFiles } :
        \A i, j \in DOMAIN fs : i # j => fs[i] # fs[j] }

\* the sidebar's controls in a run of the script
AppControls ==
    [color_scheme : {DefaultScheme, "rouhe"}, apply_clahe : BOOLEAN, contrast : {20},
     brightness : {0}, save_to_history : BOOLEAN, db_enabled : BOOLEAN]

\* the dictionary process_single_image returns for a decodable file
FileResults(registry, file, ctl, now) ==
    { [filename       |-> file.name,
       original_image |-> run.result.original_image,
       enhanced_image |-> run.result.enhanced_image,
       stats          |-> run.result.stats,
       timestamp      |-> now] :
      run \in ProcessSingleImage(registry, file.img, ctl) }

\* the loop of the batch button from file idx on: process_single_image on
\* each file in turn, its result appended; the exception of a file ends the
\* loop.  calls counts the files process_single_image was invoked on, and
\* error is "none" when the loop ran to its end
RECURSIVE BatchLoop(_, _, _, _, _, _)
BatchLoop(registry, files, ctl, now, idx, batch_results) ==
    IF idx > Len(files)
    THEN { [batch_results |-> batch_results, error |-> "none", calls |-> idx - 1] }
    ELSE IF files[idx].img = None
    THEN { [batch_results |-> batch_results, error |-> "ValueError", calls |-> idx] }
    ELSE UNION { BatchLoop(registry, files, ctl, now, idx + 1, Append(batch_results, r)) :
                 r \in FileResults(registry, files[idx], ctl, now) }

\* the entry dictionary of a batch result (HistoryEntry.to_dict has the same fields)
HistoryEntry(timestamp, filename, color_scheme, stats, original_shape, enhanced_shape) ==
    [timestamp |-> timestamp, filename |-> filename, color_scheme |-> color_scheme,
     stats |-> stats, original_shape |-> original_shape, enhanced_shape |-> enhanced_shape]

BatchEntries(batch_results, ctl) ==
    [k \in DOMAIN batch_results |->
       HistoryEntry(batch_results[k].timestamp, batch_results[k].filename, ctl.color_scheme,
                    batch_results[k].stats, batch_results[k].original_image.shape,
                    batch_results[k].enhanced_image.shape)]

\* the keys of the stats dictionary, in the order calculate_image_stats
\* inserts them (the model keeps std as its square)
StatsKeys == <<"min", "max", "mean", "std_sq", "width", "height", "median">>

\* json.dumps of a stats dictionary: its members as <<key, number>> in
\* insertion order; every number is a finite float, written with repr
JsonDumps(stats) == [k \in DOMAIN StatsKeys |-> <<StatsKeys[k], stats[StatsKeys[k]]>>]

\* json.loads of that text: the dictionary of its members; repr read back
\* gives the float that was written
JsonLoads(text) ==
    [key \in {text[k][1] : k \in DOMAIN text} |->
       text[CHOOSE k \in DOMAIN text :
              /\ text[k][1] = key
              /\ \A j \in DOMAIN text : text[j][1] = key => j <= k][2]]

\* the row save_entry_to_db inserts for an entry (a shape is a tuple)
Row(entry) ==
    [timestamp |-> entry.timestamp, filename |-> entry.filename,
     color_scheme |-> entry.color_scheme, stats_json |-> JsonDumps(entry.stats),
     original_width  |-> IF Len(entry.original_shape) >= 2 THEN entry.original_shape[2] ELSE 0,
     original_height |-> IF Len(entry.original_shape) >= 2 THEN entry.original_shape[1] ELSE 0,
     enhanced_width  |-> IF Len(entry.enhanced_shape) >= 2 THEN entry.enhanced_shape[2] ELSE 0,
     enhanced_height |-> IF Len(entry.enhanced_shape) >= 2 THEN entry.enhanced_shape[1] ELSE 0]

\* save_entry_to_db: the table after the insert
SaveEntryToDb(rows, entry) == Append(rows, Row(entry))

\* save_entries_to_db: the table after the executemany of the list
SaveEntriesToDb(rows, entries) ==
    IF entries = <<>> THEN rows
    ELSE rows \o
         [k \in DOMAIN entries |->
            LET oh_ow == IF Len(entries[k].original_shape) >= 2
                         THEN SubSeq(entries[k].original_shape, 1, 2) ELSE <<0, 0>>
                eh_ew == IF Len(entries[k].enhanced_shape) >= 2
                         THEN SubSeq(entries[k].enhanced_shape, 1, 2) ELSE <<0, 0>>
            IN  [timestamp |-> entries[k].timestamp, filename |-> entries[k].filename,
                 color_scheme |-> entries[k].color_scheme,
                 stats_json |-> JsonDumps(entries[k].stats),
                 original_width |-> oh_ow[2], original_height |-> oh_ow[1],
                 enhanced_width |-> eh_ew[2], enhanced_height |-> eh_ew[1]]]

\* a cut that keeps the end of the list
TruncateFront(history_list) ==
    IF Len(history_list) > max_entries
    THEN SubSeq(history_list, Len(history_list) - max_entries + 1, Len(history_list))
    ELSE history_list

\* history_list[:max_entries] when the list is longer than max_entries
Truncate(history_list) ==
    IF Len(history_list) > max_entries THEN SubSeq(history_list, 1, max_entries)
    ELSE history_list

\* the page_size default of load_history_from_db
DefaultPageSize == 10

\* the choices of the query form's "颜色方案" box; "quanbu" is "全部"
FilterChoices == <<"quanbu", "standard", "high_contrast", "soft">>

\* the WHERE clause of load_history_from_db: a file name fragment here is a
\* whole file name, and no file name of the model lies inside another
Matches(row, filters) ==
    \/ filters = None
    \/ /\ filters.filename_contains = "" \/ row.filename = filters.filename_contains
       /\ filters.color_scheme = "" \/ filters.color_scheme = "quanbu"
             \/ row.color_scheme = filters.color_scheme
       /\ filters.start_ts = 0 \/ row.timestamp >= filters.start_ts
       /\ filters.end_ts = 0 \/ row.timestamp <= filters.end_ts

\* the positions in `rows` of the rows the query selects, ORDER BY id DESC
RECURSIVE SelectDesc(_, _, _)
SelectDesc(rows, filters, k) ==
    IF k = 0 THEN <<>>
    ELSE IF Matches(rows[k], filters) THEN <<k>> \o SelectDesc(rows, filters, k - 1)
    ELSE SelectDesc(rows, filters, k - 1)

\* LIMIT n OFFSET offset
LimitOffset(ids, n, offset) ==
    SubSeq(ids, offset + 1, IF offset + n < Len(ids) THEN offset + n ELSE Len(ids))

\* an entry built with each shape as (width, height)
FromRowWidthFirst(row) ==
    HistoryEntry(row.timestamp, row.filename, row.color_scheme, JsonLoads(row.stats_json),
                 <<row.original_width, row.original_height>>,
                 <<row.enhanced_width, row.enhanced_height>>)

\* the entry load_history_from_db builds of a row
FromRow(row) ==
    HistoryEntry(row.timestamp, row.filename, row.color_scheme, JsonLoads(row.stats_json),
                 <<row.original_height, row.original_width>>,
                 <<row.enhanced_height, row.enhanced_width>>)

\* the positions load_history_from_db reads: the page wins over the limit
\* (limit 0 is None)
LoadedIds(rows, limit, filters, page, page_size) ==
    LET ids == SelectDesc(rows, filters, Len(rows))
    IN  IF page # 0 /\ page_size # 0 THEN LimitOffset(ids, page_size, (page - 1) * page_size)
        ELSE IF limit # 0 THEN LimitOffset(ids, limit, 0)
        ELSE ids

LoadHistoryFromDb(rows, limit, filters, page, page_size) ==
    LET ids == LoadedIds(rows, limit, filters, page, page_size)
    IN  [k \in DOMAIN ids |-> FromRow(rows[ids[k]])]

\* the button "开始批量处理"; a write to a table that init_db has not
\* created raises, after the session's list was updated
ClickBatch ==
    /\ uploaded_files # <<>>
    /\ clock < MaxClock
    /\ clock' = clock + 1
    /\ \E ctl \in AppControls :
          /\ args' = ctl
          /\ db_enabled' = ctl.db_enabled
          /\ \E run \in BatchLoop(COLOR_SCHEMES, uploaded_files, ctl, clock', 1, <<>>) :
                LET saving == run.error = "none" /\ run.batch_results # <<>>
                                 /\ ctl.save_to_history
                    failed == saving /\ ctl.db_enabled /\ ~db_table
                    batch_history_entries == BatchEntries(run.batch_results, ctl)
                IN  /\ ret' = [batch_results |-> run.batch_results,
                               error |-> IF failed THEN "OperationalError" ELSE run.error,
                               calls |-> run.calls,
                               shown |-> IF run.error = "none" /\ ~failed
                                         THEN run.batch_results ELSE <<>>]
                    /\ clahe_cache' = IF ctl.apply_clahe /\ run.batch_results # <<>>
                                      THEN GetClahe(clahe_cache, ClaheKey) ELSE clahe_cache
                    /\ IF saving
                       THEN /\ history' = Truncate(batch_history_entries \o history)
                            /\ db' = IF ctl.db_enabled /\ db_table
                                     THEN SaveEntriesToDb(db, batch_history_entries)
                                     ELSE db
                       ELSE UNCHANGED <<history, db>>
    /\ pc' = "batch"
    /\ gray' = None
    /\ UNCHANGED <<COLOR_SCHEMES, image, prev, callers, uploaded_files, db_table>>

\* HistoryManager.add_entry: history_list is the caller's list after the
\* call (the insert is made in it), returned the list handed back, db the
\* table; the write to a table that init_db has not created raises
AddEntry(history_list, entry_data, now, enabled, table, rows) ==
    LET entry == HistoryEntry(now, entry_data.filename, entry_data.color_scheme,
                              entry_data.stats, entry_data.original_shape,
                              entry_data.enhanced_shape)
        inserted == <<entry>> \o history_list
    IN  IF enabled /\ ~table
        THEN [error |-> "OperationalError", history_list |-> inserted,
              returned |-> <<>>, db |-> rows]
        ELSE [error |-> "none", history_list |-> inserted,
              returned |-> Truncate(inserted),
              db |-> IF enabled THEN SaveEntryToDb(rows, entry) ELSE rows]

\* a run of the single-file mode on the one uploaded file, and with `save`
\* the click on "保存到历史" in it: the session's list is the one add_entry
\* returned, or when add_entry raised the list it was handed
RunSingleFile(save) ==
    /\ Len(uploaded_files) = 1
    /\ clock < MaxClock
    /\ clock' = clock + 1
    /\ \E ctl \in AppControls :
          LET uploaded_file == uploaded_files[1]
          IN  /\ save => ctl.save_to_history
              /\ args' = ctl
              /\ db_enabled' = ctl.db_enabled
              /\ IF uploaded_file.img = None
                 THEN /\ ret' = [error |-> "ValueError"]
                      /\ UNCHANGED <<clahe_cache, history, db>>
                 ELSE /\ clahe_cache' = IF ctl.apply_clahe
                                        THEN GetClahe(clahe_cache, ClaheKey)
                                        ELSE clahe_cache
                      /\ \E run \in SingleFile(COLOR_SCHEMES, uploaded_file.img, ctl) :
                            IF save
                            THEN LET entry_data ==
                                       [filename |-> uploaded_file.name,
                                        color_scheme |-> ctl.color_scheme,
                                        stats |-> run.result.image_stats,
                                        original_shape |-> uploaded_file.img.shape,
                                        enhanced_shape |-> run.result.enhanced_image.shape]
                                     saved == AddEntry(history, entry_data, clock',
                                                       ctl.db_enabled, db_table, db)
                                 IN  /\ ret' = [result |-> run.result, error |-> saved.error,
                                                returned |-> saved.returned]
                                     /\ history' = IF saved.error = "none"
                                                   THEN saved.returned
                                                   ELSE saved.history_list
                                     /\ db' = saved.db
                            ELSE /\ ret' = run.result
                                 /\ UNCHANGED <<history, db>>
    /\ pc' = IF save THEN "save_to_history" ELSE "single_file"
    /\ gray' = None
    /\ UNCHANGED <<COLOR_SCHEMES, image, prev, callers, uploaded_files, db_table>>

\* the sidebar button "清空历史记录"
ClickClearHistory ==
    /\ history # <<>>
    /\ clock < MaxClock
    /\ clock' = clock + 1
    /\ history' = <<>>
    /\ pc' = "clear_history"
    /\ args' = None
    /\ gray' = None
    /\ ret' = None
    /\ UNCHANGED <<COLOR_SCHEMES, image, clahe_cache, prev, callers, uploaded_files, db,
                   db_table, db_enabled>>

\* the button "初始化数据库": CREATE TABLE IF NOT EXISTS
ClickInitDb ==
    /\ clock < MaxClock
    /\ clock' = clock + 1
    /\ db_table' = TRUE
    /\ pc' = "init_db"
    /\ args' = None
    /\ gray' = None
    /\ ret' = None
    /\ UNCHANGED <<COLOR_SCHEMES, image, clahe_cache, prev, callers, uploaded_files, history,
                   db, db_enabled>>

\* the button "从数据库加载历史": the session's list becomes what
\* load_history_from_db(max_history_entries) returns
ClickLoadFromDb ==
    /\ clock < MaxClock
    /\ clock' = clock + 1
    /\ IF db_table
       THEN LET loaded == LoadHistoryFromDb(db, max_entries, None, 1, DefaultPageSize)
            IN  /\ history' = loaded
                /\ ret' = [error |-> "none", records |-> loaded]
       ELSE /\ ret' = [error |-> "OperationalError", records |-> <<>>]
            /\ UNCHANGED history
    /\ pc' = "load_from_db"
    /\ args' = [limit |-> max_entries, filters |-> None]
    /\ gray' = None
    /\ UNCHANGED <<COLOR_SCHEMES, image, clahe_cache, prev, callers, uploaded_files, db,
                   db_table, db_enabled>>

\* the fragments typed into the query form's file name box ("" is empty)
Fragments == {"", "a.png"}

\* the button "查询" under the form's filters (no dates chosen: 0)
ClickQuery ==
    /\ clock < MaxClock
    /\ clock' = clock + 1
    /\ \E k \in DOMAIN FilterChoices, filename_contains \in Fragments :
          LET filters == [filename_contains |-> filename_contains,
                          color_scheme |-> FilterChoices[k], start_ts |-> 0, end_ts |-> 0]
          IN  /\ args' = [limit |-> max_entries, filters |-> filters]
              /\ ret' = IF db_table
                        THEN [error |-> "none",
                              records |-> LoadHistoryFromDb(db, max_entries, filters, 1,
                                                            DefaultPageSize)]
                        ELSE [error |-> "OperationalError", records |-> <<>>]
    /\ pc' = "query"
    /\ gray' = None
    /\ UNCHANGED <<COLOR_SCHEMES, image, clahe_cache, prev, callers, uploaded_files, history,
                   db, db_table, db_enabled>>

\* the button "清空数据库历史": DELETE FROM history
ClickClearDb ==
    /\ clock < MaxClock
    /\ clock' = clock + 1
    /\ db_table
    /\ db # <<>>
    /\ db' = <<>>
    /\ pc' = "clear_history_db"
    /\ args' = None
    /\ gray' = None
    /\ ret' = None
    /\ UNCHANGED <<COLOR_SCHEMES, image, clahe_cache, prev, callers, uploaded_files, history,
                   db_table, db_enabled>>

\* the table is there from an earlier session, empty
InitApp ==
    /\ COLOR_SCHEMES = ScenarioRegistry
    /\ image = [shape |-> <<1, 1>>, px |-> <<0>>]
    /\ clahe_cache = EmptyCache
    /\ pc = "idle"
    /\ args = None
    /\ gray = None
    /\ ret = None
    /\ prev = None
    /\ NoCallers
    /\ uploaded_files \in Uploads
    /\ history = <<>>
    /\ db = <<>>
    /\ db_table = TRUE
    /\ db_enabled = FALSE
    /\ clock = 0

NextApp ==
    \/ ClickBatch
    \/ RunSingleFile(FALSE)
    \/ RunSingleFile(TRUE)
    \/ ClickClearHistory

SpecApp == InitApp /\ [][NextApp]_vars

(***************************************************************************)
(* The history and its table: the save buttons of the processing tab and   *)
(* the buttons of the database tab, on one upload or a pair; the table may *)
(* or may not have been created in an earlier session.                     *)
(***************************************************************************)
InitHistory ==
    /\ COLOR_SCHEMES = ScenarioRegistry
    /\ image = [shape |-> <<1, 1>>, px |-> <<0>>]
    /\ clahe_cache = EmptyCache
    /\ pc = "idle"
    /\ args = None
    /\ gray = None
    /\ ret = None
    /\ prev = None
    /\ NoCallers
    /\ uploaded_files \in {fs \in Uploads : fs[1].name = "a.png" /\ fs[Len(fs)].name # "bad.png"}
    /\ history = <<>>
    /\ db = <<>>
    /\ db_table \in BOOLEAN
    /\ db_enabled = FALSE
    /\ clock = 0

NextHistory ==
    \/ ClickBatch
    \/ RunSingleFile(TRUE)
    \/ ClickClearHistory
    \/ ClickInitDb
    \/ ClickLoadFromDb
    \/ ClickQuery
    \/ ClickClearDb

SpecHistory == InitHistory /\ [][NextHistory]_vars

(***************************************************************************)
(* Calls in sequence on one buffer, each remembered by the next.           *)
(***************************************************************************)
InitTwice ==
    /\ COLOR_SCHEMES = ScenarioRegistry
    /\ image \in Images
    /\ clahe_cache = EmptyCache
    /\ pc = "idle"
    /\ args = None
    /\ gray = None
    /\ ret = None
    /\ prev = None
    /\ NoCallers
    /\ NoSession

NextTwice ==
    \/ CallPreprocessImage(BOOLEAN, {20}, {0})
    \/ CallEnhancePseudocolor
    \/ CallCalculateImageStats
    \/ CallComputeHistogram
    \/ CallConvertToPil
    \/ Return(TRUE)

SpecTwice == InitTwice /\ [][NextTwice]_vars

(***************************************************************************)
(* Properties.                                                             *)
(***************************************************************************)
\* the bands of a scheme, by position, whose range lo <= v < hi holds v
Covering(scheme, v) == {i \in DOMAIN scheme : scheme[i][1] <= v /\ v < scheme[i][2]}
\* the last of them in the declared order
LastCovering(scheme, v) ==
    CHOOSE i \in Covering(scheme, v) : \A j \in Covering(scheme, v) : j <= i

Enhanced == pc = "enhance_pseudocolor"
KnownName == args.color_scheme \in DOMAIN COLOR_SCHEMES

\* C1: after enhance_pseudocolor under a registered scheme, every pixel that
\* at least one band covers has the colour of the last band, in the declared
\* order, whose range lo <= intensity < hi holds the pixel's intensity.
C1_LastBandWins ==
    (Enhanced /\ KnownName) =>
        LET scheme == COLOR_SCHEMES[args.color_scheme]
        IN  \A k \in DOMAIN gray.px :
               Covering(scheme, gray.px[k]) # {} =>
                  ret.px[k] = scheme[LastCovering(scheme, gray.px[k])][3]

\* a pixel under two bands of different colours has taken the later one
C1_Witness ==
    /\ Enhanced /\ KnownName
    /\ LET scheme == COLOR_SCHEMES[args.color_scheme]
       IN  \E k \in DOMAIN gray.px :
              \E i, j \in Covering(scheme, gray.px[k]) :
                 /\ i < j
                 /\ scheme[i][3] # scheme[j][3]
                 /\ ret.px[k] = scheme[j][3]

\* C2: enhance_pseudocolor returns a 3-channel buffer of the height and width
\* of the input, in which every pixel whose intensity no band of the scheme
\* covers is black.
C2_ShapeAndBlack ==
    (Enhanced /\ KnownName) =>
        /\ ret.shape = <<image.shape[1], image.shape[2], 3>>
        /\ Len(ret.px) = image.shape[1] * image.shape[2]
        /\ \A k \in DOMAIN ret.px :
              /\ Len(ret.px[k]) = 3
              /\ Covering(COLOR_SCHEMES[args.color_scheme], gray.px[k]) = {}
                    => ret.px[k] = <<0, 0, 0>>

\* a buffer with a pixel outside every band, black, beside a coloured one
C2_Witness ==
    /\ Enhanced /\ KnownName
    /\ \E k, m \in DOMAIN ret.px :
          /\ Covering(COLOR_SCHEMES[args.color_scheme], gray.px[k]) = {}
          /\ ret.px[k] = <<0, 0, 0>>
          /\ ret.px[m] # <<0, 0, 0>>

\* C3: called with a name the registry does not hold, enhance_pseudocolor
\* returns what it returns for the default scheme name on the same image.
C3_UnknownIsDefault ==
    (Enhanced /\ ~KnownName) =>
        ret = EnhancePseudocolor(COLOR_SCHEMES, image, DefaultScheme)

\* an unregistered name has given a buffer with a coloured pixel
C3_Witness ==
    /\ Enhanced /\ ~KnownName
    /\ \E k \in DOMAIN ret.px : ret.px[k] # <<0, 0, 0>>

\* the sum of counts[lo..hi], by halves
RECURSIVE SumRange(_, _, _)
SumRange(counts, lo, hi) ==
    IF lo > hi THEN 0
    ELSE IF lo = hi THEN counts[lo]
    ELSE LET mid == (lo + hi) \div 2
         IN  SumRange(counts, lo, mid) + SumRange(counts, mid + 1, hi)

\* the sum of all the bins of a histogram over 0..n-1
SumBins(counts) == SumRange(counts, 0, Cardinality(DOMAIN counts) - 1)

Histogrammed == pc = "compute_histogram"

\* C4: the bins returned by compute_histogram sum to width * height of the image.
C4_HistogramSum ==
    Histogrammed => SumBins(ret) = image.shape[2] * image.shape[1]

\* the histogram of a buffer of several pixels, the brightest one among them
C4_Witness ==
    /\ Histogrammed
    /\ Len(image.px) >= 2
    /\ ret[255] >= 1
    /\ SumBins(ret) = Len(image.px)

\* C5: compute_histogram returns exactly 256 bins, each a natural number, and
\* bin i is the number of pixels whose intensity is exactly i.
C5_HistogramBins ==
    Histogrammed =>
        /\ DOMAIN ret = 0..255
        /\ \A i \in 0..255 :
              /\ ret[i] \in Nat
              /\ ret[i] = Cardinality({k \in DOMAIN gray.px : gray.px[k] = i})

\* a histogram with a bin of two pixels, one of one pixel, and the top bin empty
C5_Witness ==
    /\ Histogrammed
    /\ DOMAIN ret = 0..255
    /\ \E i, j \in 0..254 : ret[i] = 2 /\ ret[j] = 1
    /\ ret[255] = 0

Measured == pc = "calculate_image_stats"

\* C6: the stats of a non-empty image satisfy min <= mean <= max and
\* min <= median <= max.
C6_StatsBounds ==
    (Measured /\ Len(image.px) > 0) =>
        /\ RatLeq(Rat(ret.min, 1), ret.mean) /\ RatLeq(ret.mean, Rat(ret.max, 1))
        /\ RatLeq(Rat(ret.min, 1), ret.median) /\ RatLeq(ret.median, Rat(ret.max, 1))

\* stats whose mean and median lie strictly between min and max
C6_Witness ==
    /\ Measured
    /\ ret.min * ret.mean.den < ret.mean.num
    /\ ret.mean.num < ret.max * ret.mean.den
    /\ ret.min * ret.median.den < ret.median.num
    /\ ret.median.num < ret.max * ret.median.den

\* the intensities that occur among the pixels
Intensities(xs) == {xs[k] : k \in DOMAIN xs}
\* the number of pixels below v, and the number not above v
Below(xs, v) == Cardinality({k \in DOMAIN xs : xs[k] < v})
NotAbove(xs, v) == Cardinality({k \in DOMAIN xs : xs[k] <= v})
\* v is the pixel of rank r (1 = smallest) among the sorted pixels
HasRank(xs, v, r) ==
    /\ \E k \in DOMAIN xs : xs[k] = v
    /\ Below(xs, v) < r
    /\ r <= NotAbove(xs, v)

\* C7 as stated: for every image, of an even number of pixels too, the median
\* is the intensity of an actual pixel at a middle rank of the sorted pixels.
C7_MedianIsAPixel ==
    Measured =>
        LET n == Len(gray.px)
        IN  \E v \in Intensities(gray.px) :
               /\ RatEq(ret.median, Rat(v, 1))
               /\ HasRank(gray.px, v, (n + 1) \div 2) \/ HasRank(gray.px, v, n \div 2 + 1)

\* C7, amended: the median is exact over all the pixels: for an odd number of
\* pixels it is the pixel of the middle rank, for an even number the mean of
\* the two pixels of the middle ranks.
C7_MedianExact ==
    Measured =>
        LET n == Len(gray.px)
        IN  \E lo, hi \in Intensities(gray.px) :
               /\ HasRank(gray.px, lo, (n + 1) \div 2)
               /\ HasRank(gray.px, hi, n \div 2 + 1)
               /\ RatEq(ret.median, Rat(lo + hi, 2))

\* the median of an even number of pixels that is the intensity of none of them
C7_Witness ==
    /\ Measured
    /\ Len(gray.px) % 2 = 0
    /\ \A k \in DOMAIN gray.px : ~RatEq(ret.median, Rat(gray.px[k], 1))

Preprocessed == pc = "preprocess_image"

\* the scaled value in * gain + offset, in tenths
Scaled(v) == v * args.contrast + 10 * args.brightness
Clamp(x) == IF x < 0 THEN 0 ELSE IF x > 255 THEN 255 ELSE x
\* clamp(round(x), 0, 255) for x in tenths, a half rounded either way
ClampedRounds(t) == {Clamp((t + 5) \div 10), Clamp(-((5 - t) \div 10))}

\* C8: the remap step of preprocess_image gives each pixel
\* clamp(round(in * gain + offset), 0, 255), so 0 whenever in * gain + offset
\* is negative.
C8_ClampedRemap ==
    Preprocessed =>
        \A k \in DOMAIN gray.px : ret.px[k] \in ClampedRounds(Scaled(gray.px[k]))

\* C9: whenever in * gain + offset exceeds 255 the output pixel is exactly 255.
C9_SaturatesAtTop ==
    Preprocessed =>
        \A k \in DOMAIN gray.px : Scaled(gray.px[k]) > 2550 => ret.px[k] = 255

\* input 250 under gain 2.0 and offset 50 has given 255
C9_Witness ==
    /\ Preprocessed
    /\ gray.px = <<250>>
    /\ args.contrast = 20 /\ args.brightness = 50
    /\ ret.px = <<255>>

Legended == pc = "generate_legend"

\* C10: generate_legend returns a buffer of 40 rows, 256 columns and 3
\* channels for every scheme name, registered or not.
C10_LegendShape ==
    Legended =>
        /\ ret.shape = <<40, 256, 3>>
        /\ Len(ret.rows) = 40
        /\ \A r \in DOMAIN ret.rows :
              /\ Len(ret.rows[r]) = 256
              /\ \A c \in DOMAIN ret.rows[r] : Len(ret.rows[r][c]) = 3

\* the legend of an unregistered name, 40 by 256, with a coloured column
C10_Witness ==
    /\ Legended
    /\ args.color_scheme \notin DOMAIN COLOR_SCHEMES
    /\ Len(ret.rows) = 40 /\ Len(ret.rows[1]) = 256
    /\ \E c \in DOMAIN ret.rows[40] : ret.rows[40][c] # <<0, 0, 0>>

\* the registered scheme's bands lie within the intensity range 0..256
BandsInRange(scheme) ==
    \A i \in DOMAIN scheme : 0 <= scheme[i][1] /\ scheme[i][2] <= LegendCols

\* a buffer of one pixel of intensity c
OnePixel(c) == [shape |-> <<1, 1>>, px |-> <<c>>]

Raised(r) == "raised" \in DOMAIN r

\* the buffer is empty or has a channel count other than 1 and 3
InvalidInput(img) ==
    \/ Empty(img)
    \/ Len(img.shape) = 3 /\ img.shape[3] # 3

\* C15 as stated: preprocess_image fails with InvalidImageError or
\* DecodeError when the input buffer is empty, has a zero dimension or an
\* unsupported channel count, and no error other than these and
\* ProcessingError (wrapping a library failure) escapes it.
C15_ErrorKinds ==
    Preprocessed =>
        /\ InvalidInput(image) =>
              Raised(ret) /\ ret.raised \in {"InvalidImageError", "DecodeError"}
        /\ Raised(ret) =>
              ret.raised \in {"InvalidImageError", "DecodeError", "ProcessingError"}

Processed == pc = "process_single_image"
SingleFiled == pc = "single_file"

\* the call was made on the scenario's image, scheme and neutral controls
ScenarioRun ==
    /\ image = ScenarioImage
    /\ COLOR_SCHEMES[DefaultScheme] =
          << <<0, 100, <<0, 0, 255>>>>, <<100, 200, <<0, 255, 0>>>>, <<200, 256, <<255, 0, 0>>>> >>
    /\ args = [color_scheme |-> DefaultScheme, apply_clahe |-> FALSE,
               contrast |-> 10, brightness |-> 0]

\* C12: the 2x2 image [[0,100],[150,255]] under the scheme (0,100,[0,0,255]),
\* (100,200,[0,255,0]), (200,256,[255,0,0]), without adaptive equalization,
\* gain 1.0 and offset 0, comes out of preprocess_image then
\* enhance_pseudocolor as [[[0,0,255],[0,255,0]],[[0,255,0],[255,0,0]]].
C12_ScenarioColours ==
    ((Processed \/ SingleFiled) /\ ScenarioRun) =>
        /\ gray = ScenarioImage
        /\ ret.enhanced_image =
              [shape |-> <<2, 2, 3>>,
               px    |-> << <<0, 0, 255>>, <<0, 255, 0>>, <<0, 255, 0>>, <<255, 0, 0>> >>]

\* the scenario has been run by process_single_image
C12_Witness ==
    /\ Processed /\ ScenarioRun
    /\ ret.enhanced_image.px[1] = <<0, 0, 255>>
    /\ ret.enhanced_image.px[4] = <<255, 0, 0>>

\* the call measured the scenario's image
ScenarioMeasured == Measured /\ image = ScenarioImage

\* lo <= sqrt(q) < hi for a rational q and bounds in hundredths
StdWithin(q, lo, hi) ==
    /\ lo * lo * q.den <= q.num * 10000
    /\ q.num * 10000 < hi * hi * q.den

\* C13 as stated: for the 2x2 image [[0,100],[150,255]] calculate_image_stats
\* returns min 0, max 255, mean 126.25, std about 94.8, width 2, height 2.
C13_ScenarioStats ==
    ScenarioMeasured =>
        /\ ret.min = 0 /\ ret.max = 255
        /\ RatEq(ret.mean, Rat(12625, 100))
        /\ StdWithin(ret.std_sq, 9475, 9485)
        /\ ret.width = 2 /\ ret.height = 2

\* C13 amended: for that image calculate_image_stats returns min 0, max 255,
\* mean 126.25, width 2, height 2, and std about 91.9 (the square root of
\* 135075/16).
C13_ScenarioStatsExact ==
    ScenarioMeasured =>
        /\ ret.min = 0 /\ ret.max = 255
        /\ RatEq(ret.mean, Rat(12625, 100))
        /\ RatEq(ret.std_sq, Rat(135075, 16))
        /\ StdWithin(ret.std_sq, 9185, 9195)
        /\ ret.width = 2 /\ ret.height = 2

\* the scenario's image has been measured
C13_Witness ==
    /\ ScenarioMeasured
    /\ ret.min = 0 /\ ret.max = 255
    /\ ret.std_sq.num * 16 = 135075 * ret.std_sq.den

\* the bands cover every intensity 0..255 exactly once
DisjointExhaustive(scheme) ==
    \A v \in 0..255 : Cardinality(Covering(scheme, v)) = 1

\* this call repeats the call before it: the same operation with the same
\* arguments on the same caller's buffer
Repeated(op) == pc = op /\ prev # None /\ prev.op = op /\ prev.args = args

C16_InputUntouched ==
    /\ [][image' = image]_vars
    /\ []((Repeated("calculate_image_stats") \/ Repeated("compute_histogram"))
             => ret = prev.ret)

\* after a preprocess_image with adaptive equalization on a gray buffer, the
\* statistics taken a second time equal the first and those of the buffer
C16_Witness ==
    /\ Repeated("calculate_image_stats")
    /\ Len(image.shape) = 2
    /\ clahe_cache # EmptyCache
    /\ ret = prev.ret
    /\ ret = CalculateImageStats(image)

\* the equalizer was constructed with the parameters caller t asked for
AsRequested(clahe, t) ==
    /\ clahe.clipLimit = callers[t].clip_limit
    /\ clahe.tileGridSize = callers[t].tile_grid_size

AllDone == \A t \in DOMAIN callers : callers[t].pc = "done"

\* C17: when callers race in _get_clahe on a cache miss, under every
\* interleaving each caller receives an equalizer constructed with the clip
\* limit and tile grid it asked for, and afterwards the cache holds exactly
\* one equalizer under each requested key and nothing else, that equalizer
\* being one a caller of that key constructed.
C17_RaceBenign ==
    /\ \A t \in DOMAIN callers :
          callers[t].pc = "done" => AsRequested(callers[t].got, t)
    /\ AllDone =>
          /\ DOMAIN clahe_cache =
                { <<callers[t].clip_limit, callers[t].tile_grid_size>> : t \in DOMAIN callers }
          /\ \A t \in DOMAIN callers :
                LET kept == clahe_cache[<<callers[t].clip_limit, callers[t].tile_grid_size>>]
                IN  /\ AsRequested(kept, t)
                    /\ \E u \in DOMAIN callers : kept = callers[u].clahe

\* two callers of the same key both missed and both constructed; the first
\* was handed the equalizer of the second, and its own is discarded
C17_Witness ==
    /\ AllDone
    /\ callers[1].clip_limit = callers[2].clip_limit
    /\ callers[1].clahe # None /\ callers[2].clahe # None
    /\ callers[1].clahe # callers[2].clahe
    /\ callers[1].got = callers[2].clahe
    /\ Cardinality(DOMAIN clahe_cache) = 1

Batched == pc = "batch"

\* the calls of process_single_image the batch made on the file at position i
Invocations(i) == IF i <= ret.calls THEN 1 ELSE 0

\* the batch shows a result for the file that is one process_single_image
\* may return for that file alone under the controls
ResultShownFor(file) ==
    \E k \in DOMAIN ret.shown :
       ret.shown[k] \in FileResults(COLOR_SCHEMES, file, args, clock)

\* C18 as stated: batch processing invokes process_single_image exactly
\* once per uploaded file, and each file's result depends only on that file
\* and the controls: it is there and the same whatever the other files are,
\* whatever their order, and whether or not another file fails.
C18_BatchIndependent ==
    Batched =>
        \A i \in DOMAIN uploaded_files :
           /\ Invocations(i) = 1
           /\ uploaded_files[i].img # None => ResultShownFor(uploaded_files[i])

\* the entries of a history list or the rows of the table for a file name
EntriesOf(entries, name) == {k \in DOMAIN entries : entries[k].filename = name}

\* no uploaded image has more than one entry in memory or in the table
OneEntryPerImage ==
    \A i \in DOMAIN uploaded_files :
       /\ Cardinality(EntriesOf(history, uploaded_files[i].name)) <= 1
       /\ Cardinality(EntriesOf(db, uploaded_files[i].name)) <= 1

\* the entries kept by a step are as they were: a row stays what it was, and
\* an entry of the list is an old one or one made in this step
EntriesKept ==
    /\ \A k \in DOMAIN db : k \in DOMAIN db' /\ db'[k] = db[k]
    /\ \A k \in DOMAIN history' :
          \/ \E j \in DOMAIN history : history'[k] = history[j]
          \/ history'[k].timestamp = clock'

\* C19 as stated: over any sequence of save-button clicks, reruns and batch
\* runs with save_to_history on, no processed image gives rise to more than
\* one history entry in memory or in the database, and an entry is never
\* changed after it is created.
C19_OneEntryPerImage ==
    /\ []OneEntryPerImage
    /\ [][EntriesKept]_vars

\* C20: in process_single_image and in the single-file mode the statistics
\* are those of the decoded image, not of the preprocessed one, so for a
\* fixed image they are the same under every apply_clahe, contrast and
\* brightness; the histogram shown is that of the preprocessed image.
C20_StatsOfOriginal ==
    /\ Processed => ret.stats = CalculateImageStats(image)
    /\ SingleFiled =>
          /\ ret.image_stats = CalculateImageStats(image)
          /\ ret.counts = ComputeHistogram(gray)

\* a single-file run whose preprocessing changed the image: the statistics
\* are not those of the preprocessed buffer and the histogram is not that of
\* the decoded image
C20_Witness ==
    /\ SingleFiled
    /\ args.apply_clahe /\ args.contrast # 10 /\ args.brightness # 0
    /\ gray # ToGray(image)
    /\ ret.image_stats = CalculateImageStats(image)
    /\ ret.image_stats # CalculateImageStats(gray)
    /\ ret.counts # ComputeHistogram(image)

\* C21 as stated: after any sequence of history operations (the save button,
\* a batch save, clearing, loading from the database) the session's history
\* never holds more than max_history_entries entries.
C21_HistoryBounded == Len(history) <= max_entries

\* the save button has run add_entry, which returned
Saved == pc = "save_to_history" /\ ret.error = "none"

\* a step in which add_entry returns: the list it returns starts with the
\* new entry, goes on with the entries of the list it was handed in their
\* order, and lacks only entries of the end
AddEntryStep ==
    Saved' =>
        LET returned == ret'.returned
        IN  /\ returned # <<>>
            /\ returned[1].timestamp = clock'
            /\ returned[1].filename = uploaded_files[1].name
            /\ returned[1].color_scheme = args'.color_scheme
            /\ Len(returned) = IF Len(history) + 1 > max_entries THEN max_entries
                               ELSE Len(history) + 1
            /\ \A k \in 2..Len(returned) : returned[k] = history[k - 1]
            /\ history' = returned

\* no entry of the history is newer than one before it
NewestFirst ==
    \A i, j \in DOMAIN history : i < j => history[i].timestamp >= history[j].timestamp

SaveFailed == pc = "save_to_history" /\ ret.error = "OperationalError"

\* C23 as stated: if persisting fails inside add_entry (the database is
\* enabled and save_entry_to_db raises), the caller's in-memory history list
\* is left as it was, so an entry is in memory only if it was also written to
\* the database.
C23_FailedSaveLeavesHistory == [][SaveFailed' => history' = history]_vars

\* an entry with each shape cut to its (height, width)
HeightWidth(entry) ==
    [entry EXCEPT !.original_shape = SubSeq(@, 1, 2), !.enhanced_shape = SubSeq(@, 1, 2)]

\* what load_history_from_db, called as the button calls it, reads now
ReadBack == LoadHistoryFromDb(db, max_entries, None, 1, DefaultPageSize)

\* the batch button has saved its entries and written them to the table
BatchPersisted ==
    /\ pc = "batch" /\ ret.error = "none" /\ ret.batch_results # <<>>
    /\ args.save_to_history /\ args.db_enabled

\* the query button has read the table
Queried == pc = "query" /\ ret.error = "none"

\* an entry in memory and a record read of the same save
SameSave(entry, record) ==
    entry.timestamp = record.timestamp /\ entry.filename = record.filename

\* C24: an entry written by save_entry_to_db or save_entries_to_db and read
\* back by load_history_from_db has the same timestamp, filename,
\* color_scheme and stats, and its original_shape and enhanced_shape are the
\* (height, width) of the saved shapes, in that order; save_entries_to_db
\* stores for a list the rows save_entry_to_db stores for its elements one by
\* one, in the same order.
C24_RoundTrip ==
    /\ (Saved /\ args.db_enabled) =>
          /\ db[Len(db)] = Row(history[1])
          /\ ReadBack[1] = HeightWidth(history[1])
    /\ BatchPersisted =>
          LET entries == BatchEntries(ret.batch_results, args)
              n == Len(entries)
          IN  /\ n <= Len(db)
              /\ \A k \in 1..n :
                    /\ db[Len(db) - n + k] = Row(entries[k])
                    /\ ReadBack[n + 1 - k] = HeightWidth(entries[k])
    /\ Queried =>
          \A k \in DOMAIN ret.records, j \in DOMAIN history :
             SameSave(history[j], ret.records[k]) => ret.records[k] = HeightWidth(history[j])

\* a query reads back the two entries a batch saved, which are still in
\* memory: the gray 1x2 image enhanced to 1x2x3 and the colour 1x1x3 image
C24_Witness ==
    /\ Queried
    /\ Len(history) = 2 /\ Len(ret.records) = 2
    /\ history[1].filename = "a.png" /\ history[2].filename = "b.png"
    /\ history[1].enhanced_shape = <<1, 2, 3>> /\ history[2].original_shape = <<1, 1, 3>>
    /\ SameSave(history[1], ret.records[2]) /\ SameSave(history[2], ret.records[1])
    /\ ret.records[2].original_shape = <<1, 2>> /\ ret.records[2].enhanced_shape = <<1, 2>>
    /\ ret.records[1].original_shape = <<1, 1>>
    /\ ret.records[2].stats = history[1].stats

\* load_history_from_db has returned to the load button or the query button
Loaded == pc \in {"load_from_db", "query"} /\ ret.error = "none"

\* C25 as stated: load_history_from_db(limit=N), called as the app calls it
\* (no page or page_size argument), returns the N most recently inserted rows
\* matching the filters, ordered by id descending: never more than N rows and
\* never fewer than min(N, matching rows).
C25_LimitHonoured ==
    Loaded =>
        LET matching == SelectDesc(db, args.filters, Len(db))
            n == IF args.limit < Len(matching) THEN args.limit ELSE Len(matching)
        IN  ret.records = [k \in 1..n |-> FromRow(db[matching[k]])]

\* the rows the query selects with `value` in the colour scheme box and the
\* rest of the form left empty
Selected(value) ==
    LET ids == SelectDesc(db, [filename_contains |-> "", color_scheme |-> value,
                               start_ts |-> 0, end_ts |-> 0], Len(db))
    IN  {ids[k] : k \in DOMAIN ids}

\* the rows saved under a scheme
SavedUnder(color_scheme) == {k \in DOMAIN db : db[k].color_scheme = color_scheme}

\* C26 as stated: for every colour scheme under which an entry can be saved
\* (the choices of the sidebar) the query form offers a value that selects
\* exactly the rows saved with that scheme, and the value meaning 'all'
\* selects the rows of every scheme.
C26_FilterSelectsScheme ==
    /\ \A color_scheme \in SchemeNames :
          \E k \in DOMAIN FilterChoices :
             /\ FilterChoices[k] # "quanbu"
             /\ Selected(FilterChoices[k]) = SavedUnder(color_scheme)
    /\ Selected("quanbu") = DOMAIN db

\* C27 as stated: for every enhanced image the colour of each pixel in the
\* picture shown on screen (the enhanced buffer passed to the image display
\* as it is) equals the colour of the same pixel in the image handed to the
\* JPEG encoder for download (the output of convert_to_pil), so a band is
\* rendered in the same colour in both outputs.
C27_ScreenMatchesDownload ==
    SingleFiled =>
        /\ ret.shown_img.size = ret.pil_img.size
        /\ \A k \in DOMAIN ret.pil_img.px : ret.shown_img.px[k] = ret.pil_img.px[k]

====
